---- MODULE Spec2Model ----
(***************************************************************************)
(* tiles_rs: an actix-web server that serves pre-rendered map tiles from   *)
(* {tiles_dir}/{z}/{x}/{y}.png (src/src/lib.rs).                           *)
(*                                                                         *)
(* Strings are sequences of one-character strings.  A u32 is kept as two   *)
(* 16-bit limbs [hi, lo] (value hi * 2^16 + lo), so that the full 32-bit   *)
(* width of the coordinates is represented exactly.                        *)
(***************************************************************************)
EXTENDS Integers, Sequences, FiniteSets, TLC

(***************************************************************************)
(* Bounds of the model.                                                    *)
(***************************************************************************)
\* number of requests the server receives in one behaviour
MaxReq == 2
\* number of worker threads of the HttpServer
NumWorkers == 2
\* number of bytes one read system call returns at most
ChunkSize == 2

Req == 1..MaxReq
Worker == 1..NumWorkers

(***************************************************************************)
(* Characters and u32 arithmetic.                                          *)
(***************************************************************************)
Digits == <<"0", "1", "2", "3", "4", "5", "6", "7", "8", "9">>

IsDigit(c) == \E i \in 1..10 : Digits[i] = c

\* char::to_digit(10)
to_digit(c) == (CHOOSE i \in 1..10 : Digits[i] = c) - 1

\* base of one limb of a u32
Limb == 65536

U32(hi, lo) == [hi |-> hi, lo |-> lo]

Zero == U32(0, 0)

\* Result<u32, ParseIntError>
Ok(v) == [ok |-> TRUE, val |-> v, err |-> "none"]
Err(kind) == [ok |-> FALSE, val |-> Zero, err |-> kind]

\* the same on a 16-bit integer
checked_mul_add_u16(v, d) ==
    LET lo == v.lo * 10 + d
    IN  IF v.hi > 0 \/ lo >= Limb THEN Err("PosOverflow") ELSE Ok(U32(0, lo))

\* result.checked_mul(10)?.checked_add(d)? on a u32
checked_mul_add(v, d) ==
    LET lo == v.lo * 10 + d
        hi == v.hi * 10 + (lo \div Limb)
    IN  IF hi >= Limb THEN Err("PosOverflow") ELSE Ok(U32(hi, lo % Limb))

RECURSIVE parse_digits(_, _)
parse_digits(s, acc) ==
    IF s = <<>> THEN Ok(acc)
    ELSE IF ~IsDigit(Head(s)) THEN Err("InvalidDigit")
    ELSE LET n == checked_mul_add(acc, to_digit(Head(s)))
         IN  IF ~n.ok THEN n ELSE parse_digits(Tail(s), n.val)

\* <u32 as FromStr>::from_str: optional leading '+', decimal digits, checked
from_str(s) ==
    IF s = <<>> THEN Err("Empty")
    ELSE IF s = <<"+">> \/ s = <<"-">> THEN Err("InvalidDigit")
    ELSE parse_digits(IF Head(s) = "+" THEN Tail(s) ELSE s, Zero)

\* quotient and remainder of a u32 by 10
div_mod_10(v) ==
    LET t == (v.hi % 10) * Limb + v.lo
    IN  [q |-> U32(v.hi \div 10, t \div 10), r |-> t % 10]

RECURSIVE fmt_digits(_)
fmt_digits(v) ==
    IF v = Zero THEN <<>>
    ELSE LET d == div_mod_10(v) IN Append(fmt_digits(d.q), Digits[d.r + 1])

\* <u32 as Display>::fmt: decimal, no sign, no leading zeros
to_string(v) == IF v = Zero THEN <<"0">> ELSE fmt_digits(v)

Slash == <<"/">>
Png == <<".", "p", "n", "g">>

\* the same with x and y in each other's place
ImgPathSwapped(dir, z, x, y) ==
    dir \o Slash \o to_string(z) \o Slash \o to_string(y) \o Slash
        \o to_string(x) \o Png

\* format!("{}/{}/{}/{}.png", data.tiles_dir, z, x, y)
ImgPath(dir, z, x, y) ==
    dir \o Slash \o to_string(z) \o Slash \o to_string(x) \o Slash
        \o to_string(y) \o Png

(***************************************************************************)
(* Routing: App::new().service(index).service(get_tiles).                  *)
(***************************************************************************)
Tiles == <<"t", "i", "l", "e", "s">>

RECURSIVE split(_, _, _)
split(s, cur, acc) ==
    IF s = <<>> THEN Append(acc, cur)
    ELSE IF Head(s) = "/" THEN split(Tail(s), <<>>, Append(acc, cur))
    ELSE split(Tail(s), Append(cur, Head(s)), acc)

\* the segments of a request path: the text after each '/'
Segments(path) == Tail(split(path, <<>>, <<>>))

\* #[get("/")]: the path is exactly "/"
MatchIndex(path) == path = Slash

\* #[get("/tiles/{z}/{x}/{y}")]: "/tiles/" and three non-empty segments
MatchTiles(path) ==
    LET segs == Segments(path)
    IN  /\ Len(segs) = 4
        /\ segs[1] = Tiles
        /\ \A i \in 2..4 : segs[i] # <<>>

\* the resource a request is routed to; both resources carry the GET guard
Route(method, path) ==
    IF method = "GET" /\ MatchIndex(path) THEN "index"
    ELSE IF method = "GET" /\ MatchTiles(path) THEN "get_tiles"
    ELSE "default"

\* an extractor that takes 0 for a segment it cannot parse
ExtractOrZero(path) ==
    LET segs == Segments(path)
    IN  [ok |-> TRUE,
         coords |-> <<from_str(segs[2]).val, from_str(segs[3]).val,
                      from_str(segs[4]).val>>]

\* web::Path<(u32, u32, u32)>: every captured segment parsed as a u32
Extract(path) ==
    LET segs == Segments(path)
        z == from_str(segs[2])
        x == from_str(segs[3])
        y == from_str(segs[4])
    IN  IF z.ok /\ x.ok /\ y.ok
        THEN [ok |-> TRUE, coords |-> <<z.val, x.val, y.val>>]
        ELSE [ok |-> FALSE, coords |-> <<Zero, Zero, Zero>>]

(***************************************************************************)
(* Responses.                                                              *)
(***************************************************************************)
NoBody == <<>>
IndexBody == <<"<", "h", "1", ">">>
PathErrorBody == <<"c", "a", "n", " ", "n", "o", "t", " ", "p", "a", "r", "s", "e">>

Response(status, ctype, body) ==
    [status |-> status, content_type |-> ctype, body |-> body]

NoResponse == Response(0, "", NoBody)

\* HttpResponse::Ok().body("<h1>map source</h1>")
IndexResponse == Response(200, "text/plain; charset=utf-8", IndexBody)

\* the App's default service: no resource matched
DefaultResponse == Response(404, "", NoBody)

\* the Path extractor failed: ErrorNotFound(err)
PathErrorResponse == Response(404, "text/plain; charset=utf-8", PathErrorBody)

\* HttpResponse::Ok().content_type("image/png").body(buffer)
TileResponse(buffer) == Response(200, "image/png", buffer)

\* a 500 that sends what was read before the failure
ReadErrorResponsePartial(buffer) == Response(500, "", buffer)

\* HttpResponse::InternalServerError().finish()
ReadErrorResponse(buffer) == Response(500, "", NoBody)

\* HttpResponse::NotFound().finish()
NotFoundResponse == Response(404, "", NoBody)

(***************************************************************************)
(* The file system the handler reads, and the file handles it holds.       *)
(* A file is [kind, content, failAt]: kind "file" can be opened, kind      *)
(* "denied" cannot; a read at offset failAt returns an I/O error           *)
(* (failAt = -1: never).  A path outside the domain does not exist.        *)
(***************************************************************************)
File(content, failAt) == [kind |-> "file", content |-> content, failAt |-> failAt]
Denied == [kind |-> "denied", content |-> <<>>, failAt |-> -1]

\* an open that succeeds on every path that exists
CanOpenAnyExisting(files, p) == p \in DOMAIN files

\* File::open(&img_path).is_ok()
CanOpen(files, p) == p \in DOMAIN files /\ files[p].kind = "file"

\* one descriptor shared by every open
AllocFdShared(open) == 0

\* the lowest descriptor that is not open
AllocFd(open) ==
    CHOOSE n \in 0..Cardinality(DOMAIN open) :
        n \notin DOMAIN open /\ \A m \in 0..(n - 1) : m \in DOMAIN open

Min(a, b) == IF a < b THEN a ELSE b

\* one read system call on a handle h = [path, pos] of file f
ReadCall(f, pos) ==
    IF f.failAt = pos THEN [ok |-> FALSE, bytes |-> <<>>]
    ELSE LET left == Len(f.content) - pos
             upto == IF f.failAt > pos THEN Min(left, f.failAt - pos) ELSE left
             n == Min(ChunkSize, upto)
         IN  [ok |-> TRUE, bytes |-> SubSeq(f.content, pos + 1, pos + n)]

\* read(fd): a descriptor that is not open is an error (EBADF)
ReadFd(files, open, fd) ==
    IF fd \in DOMAIN open
    THEN ReadCall(files[open[fd].path], open[fd].pos)
    ELSE [ok |-> FALSE, bytes |-> <<>>]

\* a buffer that keeps only the bytes of the last read
ExtendOverwrite(buffer, bytes) == bytes

\* buffer.extend(bytes) in read_to_end
Extend(buffer, bytes) == buffer \o bytes

\* a handle that is never released
WithoutLeak(f, k) == f

Without(f, k) == [i \in DOMAIN f \ {k} |-> f[i]]
With(f, k, v) == [i \in DOMAIN f \cup {k} |-> IF i = k THEN v ELSE f[i]]

(***************************************************************************)
(* Log events: info!, warn!, error!                                        *)
(***************************************************************************)
\* every event logged at info
LogEventInfo(level, text, path) == [level |-> "info", text |-> text, path |-> path]

LogEvent(level, text, path) == [level |-> level, text |-> text, path |-> path]

(***************************************************************************)
(* Inputs: the configured root, the file systems and the inbound requests. *)
(***************************************************************************)
Root == <<"R">>

D3 == <<"3">>
D2 == <<"2">>
D1 == <<"1">>
D0 == <<"0">>
D5 == <<"5">>
D6 == <<"6">>
D9 == <<"9">>
D4 == <<"4">>
D12 == <<"1", "2">>
D23 == <<"2", "3">>
DMax == <<"4", "2", "9", "4", "9", "6", "7", "2", "9", "5">>
DOver == <<"4", "2", "9", "4", "9", "6", "7", "2", "9", "6">>
D65536 == <<"6", "5", "5", "3", "6">>
D70000 == <<"7", "0", "0", "0", "0">>

TileFile(z, x, y) == Root \o Slash \o z \o Slash \o x \o Slash \o y \o Png

Url(z, x, y) == Slash \o Tiles \o Slash \o z \o Slash \o x \o Slash \o y

FsA ==
    [p \in {TileFile(D3, D2, D1), TileFile(D5, D5, D5), TileFile(D6, D6, D6),
            TileFile(D1, D23, D4), TileFile(D12, D3, D4),
            TileFile(DMax, D0, D0), TileFile(D65536, D0, D70000)} |->
        CASE p = TileFile(D3, D2, D1) -> File(<<137, 80, 78, 71, 13>>, -1)
          [] p = TileFile(D5, D5, D5) -> Denied
          [] p = TileFile(D6, D6, D6) -> File(<<1, 2, 3, 4>>, 3)
          [] p = TileFile(D1, D23, D4) -> File(<<1>>, -1)
          [] p = TileFile(D12, D3, D4) -> File(<<2>>, -1)
          [] p = TileFile(DMax, D0, D0) -> File(<<255>>, -1)
          [] OTHER -> File(<<>>, -1)]

FsB ==
    [p \in {TileFile(D3, D2, D1), TileFile(D9, D9, D9), TileFile(D6, D6, D6),
            TileFile(D1, D23, D4), TileFile(D12, D3, D4)} |->
        CASE p = TileFile(D3, D2, D1) -> File(<<>>, 0)
          [] p = TileFile(D9, D9, D9) -> File(<<9, 9>>, -1)
          [] p = TileFile(D6, D6, D6) -> File(<<1, 2, 3, 4>>, 4)
          [] OTHER -> File(<<7>>, -1)]

FileSystems == {FsA, FsB}

In(method, path) == [method |-> method, path |-> path]

\* the requests of the concurrent runs: one of each outcome
Inbound ==
    { In("GET", Slash),
      In("GET", Url(D3, D2, D1)),
      In("GET", Url(D9, D9, D9)),
      In("GET", Url(D5, D5, D5)),
      In("GET", Url(D6, D6, D6)),
      In("GET", Url(<<"a", "b", "c">>, D1, D1)) }

\* the requests of the sequential runs: the shapes a path and a segment take
WideInbound ==
    { In("GET", Slash),
      In("GET", Url(D3, D2, D1)),
      In("GET", Url(<<"a", "b", "c">>, D1, D1)),
      In("GET", Url(D1, D23, D4)),
      In("GET", Url(D12, D3, D4)),
      In("GET", Url(DMax, D0, D0)),
      In("GET", Url(DOver, D1, D1)),
      In("GET", Url(<<"+", "3">>, D2, D1)),
      In("GET", Url(<<"0", "3">>, D2, D1)),
      In("GET", Url(<<"-", "1">>, D0, D0)),
      In("GET", Url(D65536, D0, D70000)),
      In("GET", Url(D3, <<>>, D1)),
      In("GET", Slash \o Tiles \o Slash \o D1 \o Slash \o D2),
      In("GET", Url(D1, D2, D3) \o Slash \o D4),
      In("GET", Slash \o <<"o", "t", "h", "e", "r">>),
      In("POST", Url(D3, D2, D1)) }

(***************************************************************************)
(* State.                                                                  *)
(***************************************************************************)
VARIABLES
    tiles_dir,  \* AppState.tiles_dir
    fs,         \* the file system: path -> file
    req,        \* the requests: position in the handler and its locals
    handles,    \* the open file descriptors: fd -> [path, pos]
    log         \* the log events emitted so far

vars == <<tiles_dir, fs, req, handles, log>>

NoFd == -1

IdleReq ==
    [pc |-> "idle", method |-> "", path |-> <<>>, worker |-> 0,
     handler |-> "none", coords |-> <<Zero, Zero, Zero>>, img_path |-> <<>>,
     fd |-> NoFd, buffer |-> <<>>, resp |-> NoResponse, opens |-> 0, reads |-> 0]

Init ==
    /\ tiles_dir = Root
    /\ fs \in FileSystems
    /\ req = [r \in Req |-> IdleReq]
    /\ handles = <<>>
    /\ log = <<>>

\* a worker thread is inside get_tiles: File::open and read_to_end block it
Busy(w) == \E r \in Req : req[r].worker = w /\ req[r].pc \in {"open", "read"}

\* the transport accepts a request and hands it to a worker
Arrive(r, in, w) ==
    /\ req[r].pc = "idle"
    /\ \A q \in Req : q < r => req[q].pc # "idle"
    /\ req' = [req EXCEPT ![r] = [@ EXCEPT !.pc = "accepted", !.method = in.method,
                                            !.path = in.path, !.worker = w]]
    /\ UNCHANGED <<tiles_dir, fs, handles, log>>

\* the transport drops a request that no handler has started on
Cancel(r) ==
    /\ req[r].pc = "accepted"
    /\ req' = [req EXCEPT ![r] = [@ EXCEPT !.pc = "cancelled", !.worker = 0]]
    /\ UNCHANGED <<tiles_dir, fs, handles, log>>

\* the worker routes the request, runs the extractor and enters the handler
Dispatch(r) ==
    /\ req[r].pc = "accepted"
    /\ ~Busy(req[r].worker)
    /\ LET route == Route(req[r].method, req[r].path)
           ex == Extract(req[r].path)
       IN  req' = [req EXCEPT ![r] =
              IF route = "index"
              THEN [@ EXCEPT !.pc = "responded", !.handler = "index",
                             !.resp = IndexResponse, !.worker = 0]
              ELSE IF route = "default"
              THEN [@ EXCEPT !.pc = "responded", !.resp = DefaultResponse,
                             !.worker = 0]
              ELSE IF ~ex.ok
              THEN [@ EXCEPT !.pc = "responded", !.resp = PathErrorResponse,
                             !.worker = 0]
              ELSE [@ EXCEPT !.pc = "open", !.handler = "get_tiles",
                             !.coords = ex.coords,
                             !.img_path = ImgPath(tiles_dir, ex.coords[1],
                                                  ex.coords[2], ex.coords[3])]]
    /\ UNCHANGED <<tiles_dir, fs, handles, log>>

\* match File::open(&img_path)
FileOpen(r) ==
    /\ req[r].pc = "open"
    /\ IF CanOpen(fs, req[r].img_path)
       THEN LET fd == AllocFd(handles)
            IN  /\ handles' = With(handles, fd, [path |-> req[r].img_path, pos |-> 0])
                /\ req' = [req EXCEPT ![r] = [@ EXCEPT !.pc = "read", !.fd = fd,
                                                        !.buffer = <<>>,
                                                        !.opens = @ + 1]]
                /\ UNCHANGED log
       ELSE /\ log' = Append(log, LogEvent("warn", "File not found: ", req[r].img_path))
            /\ req' = [req EXCEPT ![r] = [@ EXCEPT !.pc = "responded",
                                                    !.resp = NotFoundResponse,
                                                    !.opens = @ + 1,
                                                    !.worker = 0]]
            /\ UNCHANGED handles
    /\ UNCHANGED <<tiles_dir, fs>>

\* one read of file.read_to_end(&mut buffer), and what follows its return
FileRead(r) ==
    /\ req[r].pc = "read"
    /\ LET got == ReadFd(fs, handles, req[r].fd)
       IN  IF ~got.ok
           THEN /\ log' = Append(log, LogEvent("error", "Error reading file: ",
                                               req[r].img_path))
                /\ req' = [req EXCEPT ![r] =
                              [@ EXCEPT !.pc = "responded", !.fd = NoFd,
                                        !.resp = ReadErrorResponse(req[r].buffer),
                                        !.reads = @ + 1, !.worker = 0]]
                /\ handles' = Without(handles, req[r].fd)
           ELSE IF got.bytes = <<>>
           THEN /\ log' = Append(log, LogEvent("info", "Serving tile: ",
                                               req[r].img_path))
                /\ req' = [req EXCEPT ![r] =
                              [@ EXCEPT !.pc = "responded", !.fd = NoFd,
                                        !.resp = TileResponse(req[r].buffer),
                                        !.reads = @ + 1, !.worker = 0]]
                /\ handles' = Without(handles, req[r].fd)
           ELSE /\ req' = [req EXCEPT ![r] =
                              [@ EXCEPT !.buffer = Extend(@, got.bytes),
                                        !.reads = @ + 1]]
                /\ handles' = [handles EXCEPT ![req[r].fd].pos = @ + Len(got.bytes)]
                /\ UNCHANGED log
    /\ UNCHANGED <<tiles_dir, fs>>

Next ==
    \E r \in Req :
        \/ \E in \in Inbound, w \in Worker : Arrive(r, in, w)
        \/ Cancel(r)
        \/ Dispatch(r)
        \/ FileOpen(r)
        \/ FileRead(r)

\* concurrent clients
Spec == Init /\ [][Next]_vars

InFlight(r) == req[r].pc \in {"accepted", "open", "read"}

\* a client that sends its next request when the previous one has been answered
ArriveSeq(r, in, w) ==
    /\ \A q \in Req : ~InFlight(q)
    /\ Arrive(r, in, w)

NextSeq ==
    \E r \in Req :
        \/ \E in \in WideInbound, w \in Worker : ArriveSeq(r, in, w)
        \/ Dispatch(r)
        \/ FileOpen(r)
        \/ FileRead(r)

\* one client, every shape of request
SpecSeq == Init /\ [][NextSeq]_vars

TypeOK ==
    /\ tiles_dir = Root
    /\ fs \in FileSystems
    /\ \A r \in Req : req[r].pc \in {"idle", "accepted", "open", "read",
                                    "responded", "cancelled"}

(***************************************************************************)
(* Properties.                                                             *)
(***************************************************************************)
Responded(r) == req[r].pc = "responded"
InTiles(r) == req[r].handler = "get_tiles"

Exists(p) == p \in DOMAIN fs
Openable(p) == Exists(p) /\ fs[p].kind = "file"
ReadsToEnd(p) == Openable(p) /\ fs[p].failAt = -1
ReadFails(p) == Openable(p) /\ fs[p].failAt >= 0

\* C1: a tile request whose file opens and is read to the end is answered
\* 200, image/png, with exactly the bytes of the file.
C1_SuccessServesFileBytes ==
    \A r \in Req :
        (Responded(r) /\ InTiles(r) /\ ReadsToEnd(req[r].img_path)) =>
            /\ req[r].resp.status = 200
            /\ req[r].resp.content_type = "image/png"
            /\ req[r].resp.body = fs[req[r].img_path].content

\* a file longer than two reads has been served
C1_Witness ==
    \E r \in Req :
        /\ Responded(r) /\ InTiles(r) /\ ReadsToEnd(req[r].img_path)
        /\ Len(fs[req[r].img_path].content) > 2 * ChunkSize
        /\ req[r].resp.status = 200

\* C2: a tile request whose file cannot be opened, absent or denied alike, is
\* answered 404 with an empty body, after one open and no read.
C2_OpenFailureIs404 ==
    \A r \in Req :
        (InTiles(r) /\ req[r].pc # "open" /\ ~Openable(req[r].img_path)) =>
            /\ Responded(r)
            /\ req[r].resp = [status |-> 404, content_type |-> "", body |-> <<>>]
            /\ req[r].opens = 1
            /\ req[r].reads = 0
            /\ req[r].fd = NoFd

\* a file that exists but cannot be opened was answered like an absent one
C2_Witness ==
    \E r \in Req :
        /\ Responded(r) /\ InTiles(r)
        /\ Exists(req[r].img_path) /\ ~Openable(req[r].img_path)
        /\ req[r].resp.status = 404

ReadsUntil(offset) == (offset + ChunkSize - 1) \div ChunkSize + 1

\* C3: a tile request is answered 500 exactly when its file opened and a
\* read failed; the body is empty whatever was read before the failure, and
\* the failing read is the last one.
C3_ReadFailureIs500 ==
    \A r \in Req :
        /\ (Responded(r) /\ InTiles(r)) =>
              (req[r].resp.status = 500 <=> ReadFails(req[r].img_path))
        /\ req[r].resp.status = 500 =>
              /\ InTiles(r)
              /\ req[r].resp.body = <<>>
              /\ req[r].opens = 1
              /\ req[r].reads = ReadsUntil(fs[req[r].img_path].failAt)

\* a read failed after bytes had been read into the buffer
C3_Witness ==
    \E r \in Req :
        /\ Responded(r) /\ req[r].resp.status = 500
        /\ Len(req[r].buffer) > 0

(***************************************************************************)
(* The handler run alone on a file system: the response to one request.    *)
(***************************************************************************)
RECURSIVE read_to_end(_, _, _)
read_to_end(f, pos, buffer) ==
    LET got == ReadCall(f, pos)
    IN  IF ~got.ok THEN [ok |-> FALSE, buffer |-> buffer]
        ELSE IF got.bytes = <<>> THEN [ok |-> TRUE, buffer |-> buffer]
        ELSE read_to_end(f, pos + Len(got.bytes), Extend(buffer, got.bytes))

get_tiles(files, dir, coords) ==
    LET img_path == ImgPath(dir, coords[1], coords[2], coords[3])
    IN  IF ~CanOpen(files, img_path) THEN NotFoundResponse
        ELSE LET rd == read_to_end(files[img_path], 0, <<>>)
             IN  IF rd.ok THEN TileResponse(rd.buffer)
                 ELSE ReadErrorResponse(rd.buffer)

Alone(files, dir, method, path) ==
    LET route == Route(method, path)
    IN  IF route = "index" THEN IndexResponse
        ELSE IF route = "default" THEN DefaultResponse
        ELSE IF ~Extract(path).ok THEN PathErrorResponse
        ELSE get_tiles(files, dir, Extract(path).coords)

\* C7: under every interleaving, the response of a request is the response
\* the same request gets when it runs alone on the same file system.
C7_ResponseAsIfAlone ==
    \A r \in Req :
        Responded(r) =>
            req[r].resp = Alone(fs, tiles_dir, req[r].method, req[r].path)

\* two reads were in progress at once, and one of the two requests has since
\* been answered 500 while the other is still reading
C7_Witness ==
    \E r, q \in Req :
        /\ r # q
        /\ Responded(r) /\ req[r].resp.status = 500
        /\ req[q].pc = "read" /\ req[q].reads > 0
        /\ req[r].reads > 1

\* C8: while a request is inside its file read, every other accepted request
\* can be dispatched.
C8_ReadBlocksOnlyItsRequest ==
    \A r, q \in Req :
        (r # q /\ req[r].pc = "read" /\ req[q].pc = "accepted") =>
            ENABLED Dispatch(q)

Count(S) == Cardinality(S)

LogIndexes(level, path) ==
    {i \in 1..Len(log) : log[i].level = level /\ log[i].path = path}

Answered(status, path) ==
    {r \in Req : Responded(r) /\ InTiles(r) /\ req[r].resp.status = status
                 /\ req[r].img_path = path}

LoggedPaths == {log[i].path : i \in 1..Len(log)} \cup {req[r].img_path : r \in Req}

\* C9: every answered invocation of get_tiles has emitted exactly one log
\* event, with its own path, at info for 200, warn for 404 and error for
\* 500; nothing else logs.
C9_OneLogEventPerInvocation ==
    /\ Len(log) = Count({r \in Req : Responded(r) /\ InTiles(r)})
    /\ \A i \in 1..Len(log) : log[i].level \in {"info", "warn", "error"}
    /\ \A p \in LoggedPaths :
          /\ Count(LogIndexes("info", p)) = Count(Answered(200, p))
          /\ Count(LogIndexes("warn", p)) = Count(Answered(404, p))
          /\ Count(LogIndexes("error", p)) = Count(Answered(500, p))

\* two invocations have logged at different levels
C9_Witness ==
    /\ Len(log) = 2
    /\ log[1].level = "error"
    /\ log[2].level = "warn"

Reading == {r \in Req : req[r].pc = "read"}

HandlesHeld ==
    /\ \A r \in Req : req[r].opens <= 1
    /\ \A r \in Req \ Reading : req[r].fd = NoFd
    /\ \A r \in Reading :
          /\ req[r].fd \in DOMAIN handles
          /\ handles[req[r].fd].path = req[r].img_path
    /\ \A r, q \in Reading : r # q => req[r].fd # req[q].fd
    /\ Count(DOMAIN handles) = Count(Reading)

\* C10: a request opens at most one file, the open handles are exactly those
\* of the requests inside their read, one each, and no step changes the file
\* system or the configuration.
C10_HandlesReleased ==
    /\ []HandlesHeld
    /\ [][fs' = fs /\ tiles_dir' = tiles_dir]_vars

\* a request holds its handle while another, answered after its own read,
\* holds none
C10_Witness ==
    \E r, q \in Req :
        /\ req[r].pc = "read"
        /\ Responded(q) /\ req[q].opens = 1 /\ req[q].reads > 0
        /\ Count(DOMAIN handles) = 1

(***************************************************************************)
(* Text of paths and of decimal numbers, read off the characters.          *)
(***************************************************************************)
SlashAt(s) == {i \in 1..Len(s) : s[i] = "/"}

NthSlash(s, n) ==
    CHOOSE i \in SlashAt(s) : Count({j \in SlashAt(s) : j < i}) = n - 1

\* the text after the n-th '/' of s, up to the next '/' or the end
Piece(s, n) ==
    SubSeq(s, NthSlash(s, n) + 1,
           IF Count(SlashAt(s)) > n THEN NthSlash(s, n + 1) - 1 ELSE Len(s))

\* /tiles/a/b/c with a, b and c not empty
TileShaped(path) ==
    /\ Count(SlashAt(path)) = 4
    /\ Len(path) >= 7
    /\ SubSeq(path, 1, 7) = <<"/", "t", "i", "l", "e", "s", "/">>
    /\ \A k \in 2..4 : Piece(path, k) # <<>>

AllDigits(s) == s # <<>> /\ \A i \in 1..Len(s) : IsDigit(s[i])

RECURSIVE StripZeros(_)
StripZeros(s) == IF Len(s) > 1 /\ Head(s) = "0" THEN StripZeros(Tail(s)) ELSE s

Canonical(s) == AllDigits(s) /\ StripZeros(s) = s

RECURSIVE LexLeq(_, _)
LexLeq(a, b) ==
    IF a = <<>> THEN TRUE
    ELSE IF to_digit(Head(a)) < to_digit(Head(b)) THEN TRUE
    ELSE IF to_digit(Head(a)) > to_digit(Head(b)) THEN FALSE
    ELSE LexLeq(Tail(a), Tail(b))

\* u32::MAX in decimal
U32MaxText == <<"4", "2", "9", "4", "9", "6", "7", "2", "9", "5">>

\* digits whose value is at most 2^32 - 1
FitsU32(s) ==
    /\ AllDigits(s)
    /\ LET t == StripZeros(s)
       IN  Len(t) < 10 \/ (Len(t) = 10 /\ LexLeq(t, U32MaxText))

Unsigned(s) == IF s # <<>> /\ Head(s) = "+" THEN Tail(s) ELSE s

\* a segment the extractor takes: digits of a u32, after an optional '+'
U32Text(s) == FitsU32(Unsigned(s))

DecimalOf(s) == StripZeros(Unsigned(s))

Dispatched(r) == req[r].pc \in {"open", "read", "responded"}

\* C4: the path get_tiles opens is tiles_dir, then "/z/x/y" in decimal, then
\* ".png"; equal triples give equal paths and distinct triples distinct ones.
C4_PathIsRootZXYPng ==
    /\ \A r \in Req :
          InTiles(r) =>
              LET p == req[r].img_path
                  n == Len(tiles_dir)
                  zxy == SubSeq(p, n + 1, Len(p) - 4)
              IN  /\ SubSeq(p, 1, n) = tiles_dir
                  /\ SubSeq(p, Len(p) - 3, Len(p)) = <<".", "p", "n", "g">>
                  /\ Count(SlashAt(zxy)) = 3
                  /\ zxy[1] = "/"
                  /\ \A k \in 1..3 :
                        /\ Canonical(Piece(zxy, k))
                        /\ from_str(Piece(zxy, k)) = Ok(req[r].coords[k])
    /\ \A r, q \in Req :
          (InTiles(r) /\ InTiles(q)) =>
              (req[r].coords = req[q].coords <=> req[r].img_path = req[q].img_path)

\* /tiles/1/23/4 and /tiles/12/3/4 have both been resolved
C4_Witness ==
    \E r, q \in Req :
        /\ InTiles(r) /\ InTiles(q)
        /\ req[r].coords = <<U32(0, 1), U32(0, 23), U32(0, 4)>>
        /\ req[q].coords = <<U32(0, 12), U32(0, 3), U32(0, 4)>>

RoutedAs(r, integer(_)) ==
    LET m == req[r].method
        p == req[r].path
    IN  IF m = "GET" /\ p = <<"/">>
        THEN /\ req[r].handler = "index"
             /\ req[r].opens = 0
        ELSE IF m = "GET" /\ TileShaped(p) /\ \A k \in 2..4 : integer(Piece(p, k))
        THEN /\ req[r].handler = "get_tiles"
             /\ \A k \in 1..3 :
                   to_string(req[r].coords[k]) = DecimalOf(Piece(p, k + 1))
        ELSE /\ req[r].handler = "none"
             /\ Responded(r)
             /\ req[r].resp.status \in 400..499
             /\ req[r].opens = 0
             /\ req[r].reads = 0
             /\ req[r].fd = NoFd

\* an integer of any size, written in decimal after an optional '+'
IntegerText(s) == AllDigits(Unsigned(s))

\* C5 as stated: a request goes to index (GET /), to get_tiles (GET
\* /tiles/z/x/y with z, x, y each an integer, of any size) or to a 4xx answer
\* with no handler run and no file opened (everything else).
C5_AnyIntegerReachesGetTiles ==
    \A r \in Req : Dispatched(r) => RoutedAs(r, IntegerText)

\* C5: a request goes to index (GET /), to get_tiles (GET /tiles/z/x/y with
\* z, x, y each the decimal text of a u32) or to a 4xx answer with no
\* handler run and no file opened (everything else).
C5_DispatchedToExactlyOne == \A r \in Req : Dispatched(r) => RoutedAs(r, U32Text)

\* /tiles/abc/1/1 has been answered 404 without get_tiles and without an open
C5_Witness ==
    \E r \in Req :
        /\ Responded(r)
        /\ req[r].path = Url(<<"a", "b", "c">>, D1, D1)
        /\ req[r].handler = "none"
        /\ req[r].resp.status = 404
        /\ req[r].opens = 0

ResolvedAs(r, accepted(_)) ==
    LET p == req[r].path
    IN  (req[r].method = "GET" /\ TileShaped(p)
            /\ \A k \in 2..4 : AllDigits(Piece(p, k))) =>
        IF \A k \in 2..4 : accepted(Piece(p, k))
        THEN /\ InTiles(r)
             /\ req[r].img_path =
                   tiles_dir \o <<"/">> \o StripZeros(Piece(p, 2)) \o <<"/">>
                       \o StripZeros(Piece(p, 3)) \o <<"/">>
                       \o StripZeros(Piece(p, 4)) \o <<".", "p", "n", "g">>
             /\ Responded(r) =>
                   req[r].resp.status =
                       IF ~Openable(req[r].img_path) THEN 404
                       ELSE IF ReadFails(req[r].img_path) THEN 500
                       ELSE 200
        ELSE /\ ~InTiles(r)
             /\ Responded(r)
             /\ req[r].resp.status = 404
             /\ req[r].opens = 0

\* C6 as stated: every non-negative decimal value, 2^32 and above included,
\* reaches get_tiles and is resolved to R/z/x/y.png.
C6_NoUpperBound == \A r \in Req : Dispatched(r) => ResolvedAs(r, AllDigits)

\* C6: every value from 0 to 2^32 - 1 reaches get_tiles, is resolved to
\* R/z/x/y.png and is answered by the state of that file alone; a value of
\* 2^32 or more is answered 404 before get_tiles, with no file opened.
C6_NoBoundBelowU32Max == \A r \in Req : Dispatched(r) => ResolvedAs(r, FitsU32)

\* /tiles/4294967295/0/0 has been served
C6_Witness ==
    \E r \in Req :
        /\ Responded(r)
        /\ req[r].path = Url(U32MaxText, D0, D0)
        /\ req[r].coords[1] = U32(65535, 65535)
        /\ req[r].resp.status = 200
====
